---------------------------- MODULE Spec2Model ----------------------------
(***************************************************************************)
(* Model of src/index.tsx: the procedurally built, continuously animated   *)
(* tree scene (ChristmasTree, TreeLayer, Ribbon, Ornament, StarTopper).     *)
(*                                                                         *)
(* Fixed-point units (the source computes in IEEE doubles):                *)
(*   time              milliseconds          (delta, elapsedTime)          *)
(*   angles            1e-5 rad              (rotation, theta)             *)
(*   lengths, scales   1e-3                  (position, scale, radius)     *)
(*   Math.random()     1e-3                  (a draw r stands for r/1000)  *)
(*                                                                         *)
(* Three specifications share the variables:                               *)
(*   Spec        the mounted scene driven by the frame loop (useFrame)     *)
(*   SpecCurve   the loop of Ribbon's useMemo that samples the wrap curve  *)
(*   SpecLayout  the loop of TreeLayer's useMemo that lays out ornaments,  *)
(*               evaluated twice (two mounts of the same layer)            *)
(***************************************************************************)
EXTENDS Integers, Sequences, FiniteSets

VARIABLES
  nodes,        \* scene graph: the set of mounted three.js objects
  parent,       \* scene graph: child -> parent
  transform,    \* node -> [position, rotation, scale] (local transform)
  built,        \* the transforms as constructed (snapshot taken at mount)
  elapsedTime,  \* state.clock elapsed time
  delta,        \* the delta handed to the useFrame callbacks of the last frame
  frame,        \* number of frames rendered so far
  props,        \* Ribbon props under SpecCurve: radiusBottom, radiusTop, height, turns
  ci,           \* Ribbon.curve: loop variable i
  points,       \* Ribbon.curve: points pushed so far (Vector3)
  samples,      \* Ribbon.curve: the loop's locals r and theta, per pushed point
  cpc,          \* Ribbon.curve: "idle" | "loop" | "done"
  layerIndex,   \* TreeLayer prop under SpecLayout
  ringBuild,    \* which evaluation of TreeLayer.ornaments runs: 1, 2; 3 = both done
  ringI,        \* TreeLayer.ornaments: loop variable i
  ringItems     \* <<items of build 1, items of build 2>>

vars == <<nodes, parent, transform, built, elapsedTime, delta, frame,
          props, ci, points, samples, cpc,
          layerIndex, ringBuild, ringI, ringItems>>

sceneVars == <<nodes, parent, transform, built, elapsedTime, delta, frame>>
curveVars == <<props, ci, points, samples, cpc>>
ringVars == <<layerIndex, ringBuild, ringI, ringItems>>

---------------------------------------------------------------------------
(* Bounds of the model *)

MaxFrames == 6

MaxTurns == 3

MaxRingLayerIndex == 1

\* the frame deltas the clock hands out, in ms (THREE.Clock never yields a
\* negative delta; 0 happens when two frames share a timestamp)
Deltas == {0, 16, 1000, 4000}

\* outcomes of Math.random() in [0, 1), in 1e-3
RandomSamples == {0, 500, 999}

\* outcomes of Math.random() enumerated per ornament under SpecLayout
RingRandomSamples == {0, 999}

---------------------------------------------------------------------------
(* Math *)

\* Math.PI in 1e-5 rad
Pi == 314159

TwoPi == 2 * Pi

\* Math.sin of an angle a >= 0 given in 1e-5 rad, result in 1e-3.
\* Bhaskara's rational approximation on [0, pi], odd-extended and 2pi-periodic;
\* |SinMilli(a)| <= 1000 and SinMilli(0) = 0, SinMilli(pi/2) = 1000.
SinMilli(a) ==
  LET m == a % TwoPi
      h == IF m >= Pi THEN m - Pi ELSE m
      pm == Pi \div 100
      x0 == h \div 100
      x == IF x0 > pm THEN pm ELSE x0
      q == 4 * x * (pm - x)
      d == 5 * pm * pm - q
      s == (q * 200) \div (d \div 20)
  IN IF m >= Pi THEN 0 - s ELSE s

\* Math.cos
CosMilli(a) == SinMilli(a + Pi \div 2)

\* product of two 1e-3 fixed-point numbers
MulMilli(a, b) == IF a * b >= 0 THEN (a * b) \div 1000 ELSE 0 - ((0 - a * b) \div 1000)

\* mutant of Lerp: the start value is not weighted down as t grows
LerpUnweighted(x, y, num, den) == (den * x + num * y) \div den

\* THREE.MathUtils.lerp(x, y, t) = (1 - t) * x + t * y with t = num / den
Lerp(x, y, num, den) == ((den - num) * x + num * y) \div den

---------------------------------------------------------------------------
(* Scene graph *)

Node(kind, layer, i) == [kind |-> kind, layer |-> layer, i |-> i]

\* the layerIndex props of the four TreeLayer elements
LayerIndices == {0, 1, 2, 3}

\* const count = 6 + layerIndex * 2
OrnamentCount(li) == 6 + li * 2

\* position and scale props of each TreeLayer element
LayerPosition(li) ==
  CASE li = 3 -> <<0, 0, 0>>
    [] li = 2 -> <<0, 1500, 0>>
    [] li = 1 -> <<0, 2800, 0>>
    [] li = 0 -> <<0, 3800, 0>>

LayerScale(li) ==
  CASE li = 3 -> <<1500, 1200, 1500>>
    [] li = 2 -> <<1200, 1200, 1200>>
    [] li = 1 -> <<900, 1200, 900>>
    [] li = 0 -> <<500, 1000, 500>>

RootNode == Node("root", -1, -1)
FloatNode == Node("float", -1, -1)
TopperNode == Node("topper", -1, -1)
LayerNode(li) == Node("layer", li, -1)

\* the objects ChristmasTree mounts
SceneNodes ==
  {RootNode, FloatNode, TopperNode,
   Node("topperCore", -1, -1), Node("topperSpikes", -1, -1),
   Node("topperLight", -1, -1),
   Node("basePot", -1, -1), Node("baseRim", -1, -1)}
  \cup {Node(k, li, -1) : k \in {"layer", "cone", "ribbon", "trim"}, li \in LayerIndices}
  \cup UNION {{Node(k, li, i) : k \in {"ornamentGroup", "ornamentMesh"},
                               i \in 0..(OrnamentCount(li) - 1)} : li \in LayerIndices}

\* the JSX nesting
SceneParent(n) ==
  CASE n.kind = "root" -> RootNode
    [] n.kind \in {"float", "basePot", "baseRim"} -> RootNode
    [] n.kind \in {"layer", "topper"} -> FloatNode
    [] n.kind \in {"topperCore", "topperSpikes", "topperLight"} -> TopperNode
    [] n.kind \in {"cone", "ribbon", "trim", "ornamentGroup"} -> LayerNode(n.layer)
    [] n.kind = "ornamentMesh" -> Node("ornamentGroup", n.layer, n.i)

Identity == [position |-> <<0, 0, 0>>, rotation |-> <<0, 0, 0>>, scale |-> <<1000, 1000, 1000>>]

\* mutant of OrnamentItem: the jitter range is 0.5 instead of 0.4
OrnamentItemWideJitter(i, count, rnd) ==
  LET angle == (i * TwoPi) \div count
      x == MulMilli(CosMilli(angle), 1300)
      z == MulMilli(SinMilli(angle), 1300)
      y == -800 + MulMilli(SinMilli(angle * 3), 200)
  IN [position |-> <<x, y, z>>, scale |-> 600 + MulMilli(rnd, 500)]

\* one ornament of the ring: position on the undulating ring, scale 0.6 + random * 0.4
OrnamentItem(i, count, rnd) ==
  LET angle == (i * TwoPi) \div count
      x == MulMilli(CosMilli(angle), 1300)
      z == MulMilli(SinMilli(angle), 1300)
      y == -800 + MulMilli(SinMilli(angle * 3), 200)
  IN [position |-> <<x, y, z>>, scale |-> 600 + MulMilli(rnd, 400)]

\* the local transform each element is mounted with; draws[li][i] is the
\* Math.random() outcome of ornament i of layer li
MountTransform(n, draws) ==
  CASE n.kind = "root" -> [Identity EXCEPT !.position = <<0, -1000, 0>>]
    [] n.kind = "layer" ->
         [Identity EXCEPT !.position = LayerPosition(n.layer), !.scale = LayerScale(n.layer)]
    [] n.kind = "trim" ->
         [Identity EXCEPT !.position = <<0, -1200, 0>>, !.rotation = <<Pi \div 2, 0, 0>>]
    [] n.kind = "ornamentGroup" ->
         LET it == OrnamentItem(n.i, OrnamentCount(n.layer), draws[n.layer][n.i])
         IN [Identity EXCEPT !.position = it.position,
                             !.scale = <<it.scale, it.scale, it.scale>>]
    [] n.kind = "topper" -> [Identity EXCEPT !.position = <<0, 4200, 0>>]
    [] n.kind = "topperSpikes" -> [Identity EXCEPT !.rotation = <<0, 0, Pi \div 4>>]
    [] n.kind = "basePot" -> [Identity EXCEPT !.position = <<0, -1500, 0>>]
    [] n.kind = "baseRim" -> [Identity EXCEPT !.position = <<0, -1050, 0>>]
    [] OTHER -> Identity

\* Math.random() outcomes per ornament enumerated for the mounted scene:
\* two values alternating around each ring
DrawPatterns ==
  {[li \in LayerIndices |->
      [i \in 0..(OrnamentCount(li) - 1) |-> IF (i + li) % 2 = 0 THEN a ELSE b]] :
   a \in RandomSamples, b \in RandomSamples}

---------------------------------------------------------------------------
(* The frame loop: the useFrame callbacks *)

\* rotationSpeed = 0.2 (default prop of TreeLayer), in 1e-3 rad/s
rotationSpeed == 200

\* mutant of Dir: every layer turns the same way
DirAlwaysForward(li) == 1

\* const dir = layerIndex % 2 === 0 ? 1 : -1
Dir(li) == IF li % 2 = 0 THEN 1 ELSE -1

\* mutant of LayerFrame: a fixed step per frame whatever the delta
LayerFrameFixedStep(t, li, d) ==
  [t EXCEPT !.rotation[2] = @ + (16 * rotationSpeed * Dir(li)) \div 20]

\* mutant of LayerFrame: the angle is assigned, not accumulated
LayerFrameReset(t, li, d) ==
  [t EXCEPT !.rotation[2] = (d * rotationSpeed * Dir(li)) \div 20]

\* groupRef.current.rotation.y += delta * rotationSpeed * dir * 0.5
\* (ms * 1e-3 rad/s = 1e-6 rad; * 0.5 and to 1e-5 rad: divide by 20)
LayerFrame(t, li, d) ==
  [t EXCEPT !.rotation[2] = @ + (d * rotationSpeed * Dir(li)) \div 20]

\* meshRef.current.rotation.y += 0.01; meshRef.current.rotation.z += 0.005
OrnamentFrame(t) ==
  [t EXCEPT !.rotation[2] = @ + 1000, !.rotation[3] = @ + 500]

\* meshRef.current.rotation.y = -state.clock.getElapsedTime() * 0.15
RibbonFrame(t, now) ==
  [t EXCEPT !.rotation[2] = 0 - now * 15]

\* 1 + Math.sin(t * 2) * 0.1
TopperScaleAt(now) == 1000 + SinMilli(now * 200) \div 10

\* mutant of TopperFrame: the yaw is wrapped to one turn
TopperFrameWrapped(t, now) ==
  [t EXCEPT !.rotation[2] = (now * 50) % TwoPi,
            !.scale = <<TopperScaleAt(now), TopperScaleAt(now), TopperScaleAt(now)>>]

\* mutant of TopperFrame: the pulse is added to the previous scale
TopperFrameAccumulated(t, now) ==
  [t EXCEPT !.rotation[2] = now * 50,
            !.scale = <<t.scale[1] + SinMilli(now * 200) \div 10,
                        t.scale[2] + SinMilli(now * 200) \div 10,
                        t.scale[3] + SinMilli(now * 200) \div 10>>]

\* ref.current.rotation.y = t * 0.5; ref.current.scale.setScalar(1 + Math.sin(t * 2) * 0.1)
TopperFrame(t, now) ==
  [t EXCEPT !.rotation[2] = now * 50,
            !.scale = <<TopperScaleAt(now), TopperScaleAt(now), TopperScaleAt(now)>>]

\* mutant of HasOrnamentRule: the ref also lands on the positioned <group>
HasOrnamentRuleOnGroup(n) == n.kind \in {"ornamentMesh", "ornamentGroup"}

\* the object an Ornament's meshRef is attached to: the inner <mesh>
HasOrnamentRule(n) == n.kind = "ornamentMesh"

\* what one frame does to node n: the callback registered for it, if any
FrameTransform(tr, n, d, now) ==
  CASE n.kind = "layer" -> LayerFrame(tr[n], n.layer, d)
    [] n.kind = "ribbon" -> RibbonFrame(tr[n], now)
    [] n.kind = "topper" -> TopperFrame(tr[n], now)
    [] HasOrnamentRule(n) -> OrnamentFrame(tr[n])
    [] OTHER -> tr[n]

\* no scene mounted (SpecCurve and SpecLayout study one useMemo body alone)
IdleScene ==
  /\ nodes = {}
  /\ parent = <<>>
  /\ transform = <<>>
  /\ built = <<>>
  /\ elapsedTime = 0
  /\ delta = 0
  /\ frame = 0

IdleCurve ==
  /\ props = [radiusBottom |-> 1800, radiusTop |-> 100, height |-> 2500, turns |-> 3]
  /\ ci = 0
  /\ points = <<>>
  /\ samples = <<>>
  /\ cpc = "idle"

IdleRing ==
  /\ layerIndex = 0
  /\ ringBuild = 3
  /\ ringI = 0
  /\ ringItems = <<<<>>, <<>>>>

\* the scene as mounted by root.render(<App />)
Init ==
  /\ nodes = SceneNodes
  /\ parent = [n \in SceneNodes |-> SceneParent(n)]
  /\ \E draws \in DrawPatterns :
       transform = [n \in SceneNodes |-> MountTransform(n, draws)]
  /\ built = transform
  /\ elapsedTime = 0
  /\ delta = 0
  /\ frame = 0
  /\ IdleCurve
  /\ IdleRing

\* one rendered frame: the clock advances by d and every useFrame callback runs
Tick(d) ==
  /\ frame < MaxFrames
  /\ elapsedTime' = elapsedTime + d
  /\ delta' = d
  /\ frame' = frame + 1
  /\ transform' = [n \in nodes |-> FrameTransform(transform, n, d, elapsedTime + d)]
  /\ UNCHANGED <<nodes, parent, built>>
  /\ UNCHANGED <<curveVars, ringVars>>

Next == \E d \in Deltas : Tick(d)

Spec == Init /\ [][Next]_vars

---------------------------------------------------------------------------
(* Properties of the frame loop (checked under Spec) *)

RotY(n) == transform[n].rotation[2]

Abs(x) == IF x < 0 THEN 0 - x ELSE x

AnimatedKinds == {"layer", "ribbon", "ornamentMesh", "topper"}

\* C1: counter-rotation law. A layer turns forward (+1) when its layerIndex is
\* even and backward (-1) when it is odd, so two layers with adjacent indices
\* (all layers share rotationSpeed) hold angles of equal magnitude and opposite
\* sign after any sequence of frames.
C1_CounterRotation ==
  \A a \in LayerIndices :
    /\ (a % 2 = 0 => RotY(LayerNode(a)) >= 0)
    /\ (a % 2 = 1 => RotY(LayerNode(a)) <= 0)
    /\ \A b \in LayerIndices :
         b = a + 1 => RotY(LayerNode(a)) + RotY(LayerNode(b)) = 0

\* C1 witness: frames with a positive delta have run and adjacent layers 0 and 1
\* stand at opposite non-zero angles
C1_Witness ==
  /\ frame >= 2
  /\ RotY(LayerNode(0)) > 0
  /\ RotY(LayerNode(1)) = 0 - RotY(LayerNode(0))

\* C2 (as claimed): a frame whose delta is zero or negative is skipped: the
\* clock does not advance and no local transform changes.
C2_NonPositiveDeltaSkipped ==
  [][(frame' = frame + 1 /\ delta' <= 0) =>
       (elapsedTime' = elapsedTime /\ transform' = transform)]_vars

\* C2 (amended): a frame whose delta is zero is not skipped. The clock and the
\* transforms of layers, ribbons and the topper (and of every static node) stay
\* as they were, but every ornament mesh still advances by its per-frame step,
\* 0.01 rad about y and 0.005 rad about z.
C2_ZeroDeltaFrame ==
  [][(frame' = frame + 1 /\ delta' = 0) =>
       /\ elapsedTime' = elapsedTime
       /\ \A n \in nodes :
            IF n.kind = "ornamentMesh"
            THEN /\ transform'[n].rotation =
                      <<transform[n].rotation[1],
                        transform[n].rotation[2] + 1000,
                        transform[n].rotation[3] + 500>>
                 /\ transform'[n].position = transform[n].position
                 /\ transform'[n].scale = transform[n].scale
            ELSE transform'[n] = transform[n]]_vars

\* C2 witness: a zero-delta frame has just run after the layers had turned
C2_Witness ==
  /\ frame >= 2
  /\ delta = 0
  /\ elapsedTime > 0
  /\ RotY(Node("ornamentMesh", 0, 0)) = 1000 * frame

\* C4 (as claimed): every stored rotation angle of an animated node stays
\* below one full turn in magnitude.
C4_AngleBelowOneTurn ==
  \A n \in nodes : n.kind \in AnimatedKinds =>
    \A k \in 1..3 : Abs(transform[n].rotation[k]) < TwoPi

\* C4 (amended): the stored angles are never wrapped. A layer's angle has
\* magnitude 0.5 * rotationSpeed * elapsedTime, an ornament's is 0.01 (y) and
\* 0.005 (z) per rendered frame, a ribbon's is -0.15 * elapsedTime and the
\* topper's is 0.5 * elapsedTime, whatever their size.
C4_AnglesUnwrapped ==
  \A n \in nodes :
    /\ n.kind = "layer" => Abs(RotY(n)) * 20 = rotationSpeed * elapsedTime
    /\ n.kind = "ornamentMesh" => transform[n].rotation = <<0, 1000 * frame, 500 * frame>>
    /\ n.kind = "ribbon" => RotY(n) = 0 - 15 * elapsedTime
    /\ n.kind = "topper" => RotY(n) = 50 * elapsedTime

\* C4 witness: the topper's stored yaw has passed one full turn
C4_Witness ==
  /\ RotY(TopperNode) >= TwoPi
  /\ RotY(TopperNode) = 50 * elapsedTime

\* C5: a layer's angle is the integral dir * speed * (d1 + ... + dk) of the
\* deltas so far, speed being the layer's angular rate rotationSpeed * 0.5, and
\* from frame to frame it never decreases for dir = +1 and never increases for
\* dir = -1.
C5_LayerAngleIntegral ==
  /\ [](\A li \in LayerIndices :
          RotY(LayerNode(li)) * 20 =
            (IF li % 2 = 0 THEN 1 ELSE -1) * rotationSpeed * elapsedTime)
  /\ [][\A li \in LayerIndices :
          /\ (li % 2 = 0 => transform'[LayerNode(li)].rotation[2] >= RotY(LayerNode(li)))
          /\ (li % 2 = 1 => transform'[LayerNode(li)].rotation[2] <= RotY(LayerNode(li)))]_vars

\* C5 witness: several frames have run and layer 2 holds the integral of
\* their deltas
C5_Witness ==
  /\ frame >= 3
  /\ elapsedTime >= 2000
  /\ RotY(LayerNode(2)) * 20 = rotationSpeed * elapsedTime
  /\ RotY(LayerNode(3)) < 0

\* nodes that carry no useFrame callback in the source (the <Float> group is
\* driven by its library and is not counted among them)
StaticNodes == {n \in nodes : n.kind \notin AnimatedKinds \cup {"float"}}

\* C7: the frame loop changes only transforms of animated nodes. The node set
\* and the parent relation stay those of construction, and every node without
\* a callback (the base, cones, trims, ornament groups, ...) keeps the local
\* transform it was mounted with.
C7_FramesKeepGraph ==
  /\ nodes = SceneNodes
  /\ parent = [n \in SceneNodes |-> SceneParent(n)]
  /\ \A n \in StaticNodes : transform[n] = built[n]
  /\ \A n \in nodes : transform[n].position = built[n].position

\* C7 witness: frames have run, an ornament mesh has turned, and the base
\* still has its mounted transform
C7_Witness ==
  /\ frame >= 2
  /\ RotY(Node("ornamentMesh", 3, 11)) > 0
  /\ transform[Node("basePot", -1, -1)] = built[Node("basePot", -1, -1)]
  /\ Cardinality(nodes) = 96

\* C8: the topper's scale is a function of the current elapsedTime alone,
\* 1 + sin(2 t) * 0.1, uniform on the three axes, and so lies within 1 +- 0.1
\* after any sequence of frames.
C8_TopperScale ==
  LET s == transform[TopperNode].scale
  IN /\ s[1] = s[2] /\ s[2] = s[3]
     /\ s[1] >= 900 /\ s[1] <= 1100
     /\ s[1] = 1000 + SinMilli(200 * elapsedTime) \div 10

\* C8 witness: after several frames the topper is pulsed away from scale 1
C8_Witness ==
  /\ frame >= 3
  /\ transform[TopperNode].scale[1] < 950

---------------------------------------------------------------------------
(* Ribbon.curve: the useMemo body that samples the wrap curve *)

\* const steps = 100
steps == 100

\* const rOffset = 0.2
rOffset == 200

\* props a Ribbon element may be given (TreeLayer passes 1.8, 0.1, 2.5 and the
\* default turns = 3); the component body itself accepts any numbers
CurveInputs ==
  [radiusBottom : {-1000, 1800}, radiusTop : {-500, 100},
   height : {2500}, turns : 1..MaxTurns]

\* mutant of CurveLoopCond: the last sample is left out
CurveLoopCondExclusive(i) == i < steps

\* for (let i = 0; i <= steps; i++)
CurveLoopCond(i) == i <= steps

\* the body of the loop for index i: t = i / steps, r, theta, y, x, z
CurveSample(p, i) ==
  LET r == Lerp(p.radiusBottom + rOffset, p.radiusTop + rOffset, i, steps)
      theta == (i * TwoPi * p.turns) \div steps
      y == ((2 * i - steps) * p.height) \div (2 * steps)
  IN [r |-> r, theta |-> theta,
      point |-> <<MulMilli(CosMilli(theta), r), y, MulMilli(SinMilli(theta), r)>>]

InitCurve ==
  /\ IdleScene
  /\ IdleRing
  /\ props \in CurveInputs
  /\ ci = 0
  /\ points = <<>>
  /\ samples = <<>>
  /\ cpc = "loop"

\* one iteration: points.push(new THREE.Vector3(x, y, z))
CurveStep ==
  /\ cpc = "loop"
  /\ CurveLoopCond(ci)
  /\ points' = Append(points, CurveSample(props, ci).point)
  /\ samples' = Append(samples, [r |-> CurveSample(props, ci).r,
                                 theta |-> CurveSample(props, ci).theta])
  /\ ci' = ci + 1
  /\ UNCHANGED <<props, cpc>>
  /\ UNCHANGED <<sceneVars, ringVars>>

\* loop exit: return new THREE.CatmullRomCurve3(points)
CurveReturn ==
  /\ cpc = "loop"
  /\ ~CurveLoopCond(ci)
  /\ cpc' = "done"
  /\ UNCHANGED <<props, ci, points, samples>>
  /\ UNCHANGED <<sceneVars, ringVars>>

NextCurve == CurveStep \/ CurveReturn

SpecCurve == InitCurve /\ [][NextCurve]_vars

ValidRadii == props.radiusBottom >= 0 /\ props.radiusTop >= 0

\* C9: for valid inputs the curve has exactly sampleCount + 1 points (the
\* source fixes sampleCount = steps = 100), the i-th sampled at t = i / steps
\* with angle t * 2 pi * turns: the first angle is 0, the last is 2 pi * turns,
\* and the angle never decreases from one point to the next.
C9_CurveSamples ==
  (cpc = "done" /\ ValidRadii) =>
    /\ Len(points) = steps + 1
    /\ Len(samples) = steps + 1
    /\ \A k \in 1..Len(samples) :
         samples[k].theta = ((k - 1) * TwoPi * props.turns) \div steps
    /\ samples[1].theta = 0
    /\ samples[Len(samples)].theta = TwoPi * props.turns
    /\ \A k \in 1..(Len(samples) - 1) : samples[k].theta <= samples[k + 1].theta

\* C9 witness: the curve of a valid three-turn ribbon has been returned
C9_Witness ==
  /\ cpc = "done"
  /\ ValidRadii
  /\ props.turns = 3
  /\ Len(points) = 101
  /\ samples[101].theta = 3 * TwoPi

\* C10 (as claimed): with a negative radiusBottom or radiusTop construction
\* fails: no point is sampled and no curve is returned.
C10_InvalidRejected ==
  ~ValidRadii => (points = <<>> /\ cpc # "done")

\* C10 (amended): nothing is validated. Whatever the sign of the radii the
\* loop runs its steps + 1 = 101 iterations (sampleCount is the constant 100,
\* never < 2) and the curve is returned, the radius of sample i being
\* lerp(radiusBottom + 0.2, radiusTop + 0.2, i / steps), negative where the
\* inputs make it so.
C10_CurveBuiltUnvalidated ==
  /\ cpc \in {"loop", "done"}
  /\ Len(points) = ci
  /\ Len(samples) = ci
  /\ \A k \in 1..Len(samples) :
       samples[k].r =
         ((steps - (k - 1)) * (props.radiusBottom + rOffset)
            + (k - 1) * (props.radiusTop + rOffset)) \div steps
  /\ cpc = "done" => ci = steps + 1

\* C10 witness: a curve was returned for negative radii, with a negative
\* sampled radius
C10_Witness ==
  /\ cpc = "done"
  /\ props.radiusBottom < 0
  /\ props.radiusTop < 0
  /\ Len(points) = 101
  /\ samples[1].r < 0

---------------------------------------------------------------------------
(* TreeLayer.ornaments: the useMemo body that lays out the ornament ring,  *)
(* evaluated once per mount; two mounts of the same layer are compared     *)

InitLayout ==
  /\ IdleScene
  /\ IdleCurve
  /\ layerIndex \in 0..MaxRingLayerIndex
  /\ ringBuild = 1
  /\ ringI = 0
  /\ ringItems = <<<<>>, <<>>>>

\* one iteration of for (let i = 0; i < count; i++): items.push(<Ornament .../>)
\* with rnd the outcome of Math.random()
OrnamentStep(rnd) ==
  /\ ringBuild \in {1, 2}
  /\ ringI < OrnamentCount(layerIndex)
  /\ ringItems' = [ringItems EXCEPT
                     ![ringBuild] = Append(@, OrnamentItem(ringI, OrnamentCount(layerIndex), rnd))]
  /\ ringI' = ringI + 1
  /\ UNCHANGED <<layerIndex, ringBuild>>
  /\ UNCHANGED <<sceneVars, curveVars>>

\* loop exit: return items (the next mount then evaluates the body again)
OrnamentsReturn ==
  /\ ringBuild \in {1, 2}
  /\ ringI >= OrnamentCount(layerIndex)
  /\ ringBuild' = ringBuild + 1
  /\ ringI' = 0
  /\ UNCHANGED <<layerIndex, ringItems>>
  /\ UNCHANGED <<sceneVars, curveVars>>

NextLayout == (\E rnd \in RingRandomSamples : OrnamentStep(rnd)) \/ OrnamentsReturn

SpecLayout == InitLayout /\ [][NextLayout]_vars

\* C6 (as claimed): two constructions of the ring with the same inputs yield
\* identical sequences of (position, scale).
C6_LayoutIdentical ==
  ringBuild = 3 => ringItems[1] = ringItems[2]

\* C6 (amended): two constructions yield the same count = 6 + 2 * layerIndex
\* positions in the same order, and every scale is 0.6 plus a jitter in
\* [0, 0.4); the jitter is an unseeded Math.random() draw, so the scales of two
\* constructions need not agree.
C6_PositionsDeterministic ==
  ringBuild = 3 =>
    /\ Len(ringItems[1]) = 6 + 2 * layerIndex
    /\ Len(ringItems[2]) = 6 + 2 * layerIndex
    /\ \A k \in 1..Len(ringItems[1]) :
         /\ ringItems[1][k].position = ringItems[2][k].position
         /\ ringItems[1][k].scale >= 600 /\ ringItems[1][k].scale < 1000
         /\ ringItems[2][k].scale >= 600 /\ ringItems[2][k].scale < 1000

\* C6 witness: both constructions are complete, agree on every position and
\* differ in a scale
C6_Witness ==
  /\ ringBuild = 3
  /\ Len(ringItems[1]) = 8
  /\ \A k \in 1..8 : ringItems[1][k].position = ringItems[2][k].position
  /\ \E k \in 1..8 : ringItems[1][k].scale # ringItems[2][k].scale
  /\ ringItems[1][2].position # ringItems[1][6].position

=============================================================================
